---- MODULE Spec2Model ----
(***************************************************************************)
(* Model of decompiler/instruction.h: the Parameter accessors and the      *)
(* textual rendering of an Instruction (operator<<).                       *)
(*                                                                         *)
(* Text is a sequence of one-character strings.  A 32-bit value is a TLA+  *)
(* integer; the conversion of an int32 to its unsigned bit pattern, which  *)
(* the hexadecimal output performs, is computed nibble by nibble, so no    *)
(* intermediate value leaves the range of int32.                           *)
(***************************************************************************)
EXTENDS Integers, Sequences, FiniteSets, TLC

VARIABLES inst, last

vars == <<inst, last>>

(***************************************************************************)
(* Enumerations                                                            *)
(***************************************************************************)
InstType ==
  {"kBinaryOp", "kCall", "kCondJump", "kCondJumpRel", "kDup", "kJump",
   "kJumpRel", "kLoad", "kReturn", "kSpecial", "kStack", "kStore", "kUnaryOp"}

ParamType ==
  {"kSByte", "kByte", "kShort", "kUShort", "kInt", "kUInt", "kString"}

(***************************************************************************)
(* boost::variant<int32, uint32, std::string>: `which` names the stored    *)
(* alternative; the field of the other alternatives is kept at a fixed     *)
(* filler and is never read.                                               *)
(***************************************************************************)
VariantInt32(v) == [which |-> "int32", num |-> v, str |-> <<>>]

VariantUInt32(v) == [which |-> "uint32", num |-> v, str |-> <<>>]

VariantString(s) == [which |-> "string", num |-> 0, str |-> s]

(***************************************************************************)
(* Bounds of the model and the pools the inputs are drawn from.  Values    *)
(* stay below 2^31 in magnitude.                                           *)
(***************************************************************************)
MaxParams == 2

Int32Values == {-16, -1, 0, 26}

UInt32Values == {0, 4096}

StringValues == {<<"a", "b">>}

Variants ==
  {VariantInt32(v) : v \in Int32Values}
    \cup {VariantUInt32(v) : v \in UInt32Values}
    \cup {VariantString(s) : s \in StringValues}

\* Every combination of declared type and stored alternative.
Parameter == [_type : ParamType, _value : Variants]

\* The operands used in the longer operand lists: one coherent operand of
\* each alternative and one whose declared type and stored alternative differ.
CoreParameter ==
  {[_type |-> "kInt", _value |-> VariantInt32(-16)],
   [_type |-> "kUInt", _value |-> VariantUInt32(4096)],
   [_type |-> "kString", _value |-> VariantString(<<"a", "b">>)],
   [_type |-> "kByte", _value |-> VariantInt32(-1)]}

Addresses == {42, 48879}

StackChanges == {-2, 3}

Names == {<<"j", "m", "p">>, <<"o", "p">>}

Opcodes == {1, 2}

CodeGenDatas == {<<>>, <<"\\xC0", "p">>}

SeqsUpTo(S, n) == UNION {[1..k -> S] : k \in 0..n}

\* Operand lists: every single operand, and every list of up to MaxParams
\* core operands.
ParamLists == {<<p>> : p \in Parameter} \cup SeqsUpTo(CoreParameter, MaxParams)

Instruction ==
  [_opcode : Opcodes, _address : Addresses, _stackChange : StackChanges,
   _name : Names, _type : InstType, _params : ParamLists,
   _codeGenData : CodeGenDatas]

(***************************************************************************)
(* Parameter accessors: boost::get<T>(_value) returns the stored value     *)
(* when the variant holds a T and throws boost::bad_get otherwise.         *)
(***************************************************************************)
Returned(n, s) == [thrown |-> FALSE, num |-> n, str |-> s]

BadGet == [thrown |-> TRUE, num |-> 0, str |-> <<>>]

\* Variant of getSigned that also converts a stored uint32.
getSigned_Coercing(p) ==
  IF p._value.which \in {"int32", "uint32"}
  THEN Returned(p._value.num, <<>>) ELSE BadGet

getSigned(p) ==
  IF p._value.which = "int32" THEN Returned(p._value.num, <<>>) ELSE BadGet

\* Variant of getUnsigned that returns 0 instead of throwing.
getUnsigned_ZeroOnMismatch(p) ==
  IF p._value.which = "uint32" THEN Returned(p._value.num, <<>>)
  ELSE Returned(0, <<>>)

\* Variant of getUnsigned that also converts a stored int32.
getUnsigned_Coercing(p) ==
  IF p._value.which \in {"int32", "uint32"}
  THEN Returned(p._value.num, <<>>) ELSE BadGet

getUnsigned(p) ==
  IF p._value.which = "uint32" THEN Returned(p._value.num, <<>>) ELSE BadGet

getString(p) ==
  IF p._value.which = "string" THEN Returned(0, p._value.str) ELSE BadGet

(***************************************************************************)
(* Number formatting                                                       *)
(***************************************************************************)
LowerHexDigits ==
  <<"0", "1", "2", "3", "4", "5", "6", "7", "8", "9",
    "a", "b", "c", "d", "e", "f">>

UpperHexDigits ==
  <<"0", "1", "2", "3", "4", "5", "6", "7", "8", "9",
    "A", "B", "C", "D", "E", "F">>

\* Nibble k (0 = least significant) of the 32-bit pattern of v; for a
\* negative int32 this is the nibble of its two's complement.
Nibble(v, k) == (v \div (16 ^ k)) % 16

\* Number of hexadecimal digits of the 32-bit pattern of v, at least one.
HexLength(v) ==
  LET used == {k \in 1..8 : Nibble(v, k - 1) # 0}
  IN  IF used = {} THEN 1 ELSE CHOOSE k \in used : \A j \in used : j <= k

\* The stream's hexadecimal conversion of a 32-bit integer: the value is
\* converted to unsigned and written with no sign and no padding.
HexText(v, digits) ==
  [i \in 1..HexLength(v) |-> digits[Nibble(v, HexLength(v) - i) + 1]]

\* Left padding with '0' to a minimum width.
ZeroPad(text, width) ==
  IF Len(text) >= width THEN text
  ELSE [i \in 1..(width - Len(text)) |-> "0"] \o text

RECURSIVE DecDigits(_)
DecDigits(n) ==
  IF n < 10 THEN <<UpperHexDigits[n + 1]>>
  ELSE DecDigits(n \div 10) \o <<UpperHexDigits[(n % 10) + 1]>>

\* The stream's decimal conversion of an integer.
DecText(v) == IF v < 0 THEN <<"-">> \o DecDigits(-v) ELSE DecDigits(v)

\* Variant of FormatAddressName with the format "%x: %s".
FormatAddressName_Unpadded(address, name) ==
  HexText(address, LowerHexDigits) \o <<":", " ">> \o name

\* boost::format("%08x: %s") % _address % _name
FormatAddressName(address, name) ==
  ZeroPad(HexText(address, LowerHexDigits), 8) \o <<":", " ">> \o name

\* Variant of FormatHexOperand that writes the low byte of the value only.
FormatHexOperand_LowByte(v) ==
  <<" ", "0", "x">> \o HexText(v % 256, UpperHexDigits)

\* boost::format(" 0x%X") % value
FormatHexOperand(v) == <<" ", "0", "x">> \o HexText(v, UpperHexDigits)

\* boost::format(" (%d)") % _stackChange
FormatStackChange(sc) == <<" ", "(">> \o DecText(sc) \o <<")">>

\* output << _value : the stored alternative in the stream's default form.
VariantText(value) ==
  IF value.which = "string" THEN value.str ELSE DecText(value.num)

(***************************************************************************)
(* operator<<(std::ostream &, const Instruction &)                         *)
(***************************************************************************)
\* Variant of IsJumpOrCall that leaves kCall out.
IsJumpOrCall_WithoutCall(t) ==
  t \in {"kCondJump", "kCondJumpRel", "kJump", "kJumpRel"}

\* Variant of IsJumpOrCall that takes kLoad in.
IsJumpOrCall_WithLoad(t) ==
  t \in {"kCondJump", "kCondJumpRel", "kJump", "kJumpRel", "kCall", "kLoad"}

IsJumpOrCall(t) ==
  t \in {"kCondJump", "kCondJumpRel", "kJump", "kJumpRel", "kCall"}

\* What one iteration of the loop writes for a parameter after the
\* separating comma, or the exception it raises.
ParamText(instType, param) ==
  IF IsJumpOrCall(instType)
  THEN CASE param._type \in {"kSByte", "kShort", "kInt"} ->
              LET r == getSigned(param)
              IN  IF r.thrown THEN [thrown |-> TRUE, text |-> <<>>]
                  ELSE [thrown |-> FALSE, text |-> FormatHexOperand(r.num)]
         [] param._type \in {"kByte", "kUShort", "kUInt"} ->
              LET r == getUnsigned(param)
              IN  IF r.thrown THEN [thrown |-> TRUE, text |-> <<>>]
                  ELSE [thrown |-> FALSE, text |-> FormatHexOperand(r.num)]
         [] OTHER ->
              [thrown |-> FALSE, text |-> <<" ">> \o VariantText(param._value)]
  ELSE [thrown |-> FALSE, text |-> <<" ">> \o VariantText(param._value)]

\* Variant of Separator without the test for the first parameter.
Separator_Always(k) == <<",">>

\* The separator written before parameter k.
Separator(k) == IF k # 1 THEN <<",">> ELSE <<>>

\* The loop over _params from parameter k on; acc is what has been written
\* so far (out) and the texts written for the parameters done (fields).
RECURSIVE RenderParams(_, _, _)
RenderParams(i, k, acc) ==
  IF k > Len(i._params)
  THEN [thrown |-> FALSE,
        out |-> acc.out \o FormatStackChange(i._stackChange) \o <<"\n">>,
        fields |-> acc.fields]
  ELSE LET sep == acc.out \o Separator(k)
           r == ParamText(i._type, i._params[k])
       IN  IF r.thrown
           THEN [thrown |-> TRUE, out |-> sep, fields |-> acc.fields]
           ELSE RenderParams(i, k + 1,
                             [out |-> sep \o r.text,
                              fields |-> Append(acc.fields, r.text)])

\* Variant of RenderHeader that also writes the opcode.
RenderHeader_WithOpcode(i) ==
  FormatAddressName(i._address, i._name) \o <<" ">> \o DecText(i._opcode)

\* The text header written before the loop.
RenderHeader(i) == FormatAddressName(i._address, i._name)

Render(i) == RenderParams(i, 1, [out |-> RenderHeader(i), fields |-> <<>>])

(***************************************************************************)
(* State machine: an Instruction as constructed by the disassembler, and   *)
(* the last call made on it with its outcome.                              *)
(***************************************************************************)
NoCall ==
  [op |-> "none", idx |-> 0, thrown |-> FALSE, num |-> 0, text |-> <<>>,
   fields |-> <<>>]

AccessorCall(name, k, r) ==
  [op |-> name, idx |-> k, thrown |-> r.thrown, num |-> r.num, text |-> r.str,
   fields |-> <<>>]

Init ==
  /\ inst \in Instruction
  /\ last = NoCall

GetSigned(k) ==
  /\ last' = AccessorCall("getSigned", k, getSigned(inst._params[k]))
  /\ UNCHANGED inst

GetUnsigned(k) ==
  /\ last' = AccessorCall("getUnsigned", k, getUnsigned(inst._params[k]))
  /\ UNCHANGED inst

\* Variant of GetString that moves the text out of the parameter.
GetString_Moving(k) ==
  /\ last' = AccessorCall("getString", k, getString(inst._params[k]))
  /\ inst' = [inst EXCEPT !._params[k]._value.str = <<>>]

GetString(k) ==
  /\ last' = AccessorCall("getString", k, getString(inst._params[k]))
  /\ UNCHANGED inst

Output ==
  /\ last' = [op |-> "output", idx |-> 0, thrown |-> Render(inst).thrown,
              num |-> 0, text |-> Render(inst).out,
              fields |-> Render(inst).fields]
  /\ UNCHANGED inst

Next ==
  \/ \E k \in 1..Len(inst._params) : GetSigned(k)
  \/ \E k \in 1..Len(inst._params) : GetUnsigned(k)
  \/ \E k \in 1..Len(inst._params) : GetString(k)
  \/ Output

Spec == Init /\ [][Next]_vars

(***************************************************************************)
(* Reading text back: the definitions below state what a rendered text     *)
(* denotes, independently of the way the rendering produced it.            *)
(***************************************************************************)
DecimalDigits == <<"0", "1", "2", "3", "4", "5", "6", "7", "8", "9">>

IsNumeral(t, digits) ==
  /\ Len(t) >= 1
  /\ \A i \in 1..Len(t) : \E d \in 1..Len(digits) : digits[d] = t[i]

DigitOf(c, digits) == (CHOOSE d \in 1..Len(digits) : digits[d] = c) - 1

RECURSIVE NumeralValue(_, _)
NumeralValue(t, digits) ==
  IF t = <<>> THEN 0
  ELSE NumeralValue(SubSeq(t, 1, Len(t) - 1), digits) * Len(digits)
         + DigitOf(t[Len(t)], digits)

NoLeadingZero(t) == Len(t) = 1 \/ t[1] # "0"

\* t is a hexadecimal numeral of at most 8 digits whose value is the 32-bit
\* pattern of v (v + 2^32 for a negative v), compared in 16-bit halves.
HexDenotes(t, v, digits) ==
  /\ IsNumeral(t, digits)
  /\ Len(t) <= 8
  /\ LET z == [i \in 1..8 |-> IF i <= 8 - Len(t) THEN "0"
                              ELSE t[i - (8 - Len(t))]]
     IN  /\ NumeralValue(SubSeq(z, 1, 4), digits) = (v \div 65536) % 65536
         /\ NumeralValue(SubSeq(z, 5, 8), digits) = v % 65536

\* t is the canonical decimal numeral of v.
DecDenotes(t, v) ==
  IF v < 0
  THEN /\ Len(t) >= 2
       /\ t[1] = "-"
       /\ IsNumeral(Tail(t), DecimalDigits)
       /\ NoLeadingZero(Tail(t))
       /\ NumeralValue(Tail(t), DecimalDigits) = -v
  ELSE /\ IsNumeral(t, DecimalDigits)
       /\ NoLeadingZero(t)
       /\ NumeralValue(t, DecimalDigits) = v

\* t is the default textual form of the stored alternative.
IsDefaultForm(t, value) ==
  IF value.which = "string" THEN t = value.str ELSE DecDenotes(t, value.num)

\* t is a space, 0x and a hexadecimal numeral denoting v.
IsHexOperand(t, v) ==
  /\ Len(t) >= 4
  /\ SubSeq(t, 1, 3) = <<" ", "0", "x">>
  /\ HexDenotes(SubSeq(t, 4, Len(t)), v, UpperHexDigits)

SignedTypes == {"kSByte", "kShort", "kInt"}

UnsignedTypes == {"kByte", "kUShort", "kUInt"}

ControlTransfer == {"kCondJump", "kCondJumpRel", "kJump", "kJumpRel", "kCall"}

OtherCategories ==
  {"kBinaryOp", "kDup", "kLoad", "kReturn", "kSpecial", "kStack", "kStore",
   "kUnaryOp"}

\* The alternative implied by a declared type.
ImpliedAlternative(t) ==
  IF t \in SignedTypes THEN "int32"
  ELSE IF t \in UnsignedTypes THEN "uint32" ELSE "string"

ImpliedAccessor(t) ==
  IF t \in SignedTypes THEN "getSigned"
  ELSE IF t \in UnsignedTypes THEN "getUnsigned" ELSE "getString"

Coherent(p) == p._value.which = ImpliedAlternative(p._type)

IsAccessorCall == last.op \in {"getSigned", "getUnsigned", "getString"}

Accessed == inst._params[last.idx]

(***************************************************************************)
(* C1 (as stated): an accessor succeeds only when the declared _type is in *)
(* the accessor's class: getSigned for kSByte/kShort/kInt, getUnsigned for *)
(* kByte/kUShort/kUInt, getString for kString; otherwise it throws.        *)
(***************************************************************************)
C1_SuccessDecidedByDeclaredType ==
  IsAccessorCall =>
    (~last.thrown => last.op = ImpliedAccessor(Accessed._type))

(***************************************************************************)
(* C1 (amended): an accessor's success is decided by the stored variant    *)
(* alternative, whatever the declared _type: getSigned succeeds exactly    *)
(* when _value holds an int32, getUnsigned when it holds a uint32,         *)
(* getString when it holds a string; otherwise it throws boost::bad_get.   *)
(***************************************************************************)
C1_SuccessDecidedByStoredAlternative ==
  IsAccessorCall =>
    /\ last.op = "getSigned" => (~last.thrown <=> Accessed._value.which = "int32")
    /\ last.op = "getUnsigned" => (~last.thrown <=> Accessed._value.which = "uint32")
    /\ last.op = "getString" => (~last.thrown <=> Accessed._value.which = "string")

\* getSigned has returned on a parameter declared kByte that stores an int32.
C1_Witness ==
  /\ last.op = "getSigned"
  /\ ~last.thrown
  /\ Accessed._type = "kByte"
  /\ Accessed._value.which = "int32"

(***************************************************************************)
(* C2: on a Parameter whose stored alternative is the one implied by its   *)
(* type, the implied accessor returns exactly the stored value and each of *)
(* the two other accessors throws, returning nothing.                      *)
(***************************************************************************)
C2_RoundTrip ==
  (IsAccessorCall /\ Coherent(Accessed)) =>
    IF last.op = ImpliedAccessor(Accessed._type)
    THEN /\ ~last.thrown
         /\ last.op \in {"getSigned", "getUnsigned"} =>
              last.num = Accessed._value.num
         /\ last.op = "getString" => last.text = Accessed._value.str
    ELSE last.thrown

\* getUnsigned has returned 4096 on a kUInt parameter storing uint32 4096.
C2_Witness ==
  /\ last.op = "getUnsigned"
  /\ Accessed = [_type |-> "kUInt", _value |-> VariantUInt32(4096)]
  /\ ~last.thrown
  /\ last.num = 4096

IsOutput == last.op = "output"

Params == inst._params

\* The text written before the first parameter takes 8 digits, a colon, a
\* space and the name.
HeaderLength == 10 + Len(inst._name)

\* The line starts with the address as 8 digits out of `digits`, a colon, a
\* space and the name.
StartsWithAddressName(digits) ==
  /\ Len(last.text) >= HeaderLength
  /\ HexDenotes(SubSeq(last.text, 1, 8), inst._address, digits)
  /\ SubSeq(last.text, 9, 10) = <<":", " ">>
  /\ SubSeq(last.text, 11, HeaderLength) = inst._name

(***************************************************************************)
(* C3 (as stated): the rendered line begins with the address as exactly 8  *)
(* zero-padded uppercase hexadecimal digits, a colon, one space and the    *)
(* name.                                                                   *)
(***************************************************************************)
C3_AddressUppercase == IsOutput => StartsWithAddressName(UpperHexDigits)

(***************************************************************************)
(* C3 (amended): the rendered line begins with the address as exactly 8    *)
(* zero-padded lowercase hexadecimal digits, a colon, one space and the    *)
(* name; address 0x2A renders as 0000002a.                                 *)
(***************************************************************************)
C3_AddressLowercase == IsOutput => StartsWithAddressName(LowerHexDigits)

\* Address 0x2A has been rendered, as 0000002a.
C3_Witness ==
  /\ IsOutput
  /\ inst._address = 42
  /\ inst._name = <<"j", "m", "p">>
  /\ SubSeq(last.text, 1, 13)
       = <<"0", "0", "0", "0", "0", "0", "2", "a", ":", " ", "j", "m", "p">>

(***************************************************************************)
(* C4: in the categories kCondJump, kCondJumpRel, kJump, kJumpRel, kCall   *)
(* every parameter of a signed type is rendered as 0x and the uppercase    *)
(* hexadecimal of its signed value (its 32-bit pattern), every parameter   *)
(* of an unsigned type as 0x and the uppercase hexadecimal of its unsigned *)
(* value, every kString parameter in its default form; when every          *)
(* parameter is coherent, all of them are rendered.                        *)
(***************************************************************************)
C4_JumpCallOperands ==
  (IsOutput /\ inst._type \in ControlTransfer) =>
    /\ Len(last.fields) <= Len(Params)
    /\ (\A k \in 1..Len(Params) : Coherent(Params[k])) =>
         (~last.thrown /\ Len(last.fields) = Len(Params))
    /\ \A k \in 1..Len(last.fields) :
         LET p == Params[k]
             f == last.fields[k]
         IN  IF p._type \in SignedTypes \cup UnsignedTypes
             THEN IsHexOperand(f, p._value.num)
             ELSE /\ f[1] = " "
                  /\ IsDefaultForm(Tail(f), p._value)

\* kJump with kInt -16 has been rendered, the operand as 0xFFFFFFF0.
C4_Witness ==
  /\ IsOutput
  /\ inst._type = "kJump"
  /\ Params = <<[_type |-> "kInt", _value |-> VariantInt32(-16)]>>
  /\ last.fields
       = <<<<" ", "0", "x", "F", "F", "F", "F", "F", "F", "F", "0">>>>

(***************************************************************************)
(* C5: in the eight other categories every parameter, whatever its         *)
(* declared type, is rendered in the default form of its stored value      *)
(* (decimal for a number, the text itself for a string), never in          *)
(* hexadecimal; kLoad with kInt -16 renders -16.                           *)
(***************************************************************************)
C5_OtherOperandsDefaultForm ==
  (IsOutput /\ inst._type \in OtherCategories) =>
    /\ ~last.thrown
    /\ Len(last.fields) = Len(Params)
    /\ \A k \in 1..Len(Params) :
         /\ last.fields[k][1] = " "
         /\ IsDefaultForm(Tail(last.fields[k]), Params[k]._value)

\* kLoad with kInt -16 has been rendered, the operand as -16.
C5_Witness ==
  /\ IsOutput
  /\ inst._type = "kLoad"
  /\ Params = <<[_type |-> "kInt", _value |-> VariantInt32(-16)]>>
  /\ last.fields = <<<<" ", "-", "1", "6">>>>

\* The line is complete: it ends with the line terminator.
CompleteLine == Len(last.text) >= 1 /\ last.text[Len(last.text)] = "\n"

(***************************************************************************)
(* C6 (as stated): rendering an Instruction of any category that holds a   *)
(* Parameter whose declared type and stored alternative are inconsistent   *)
(* fails with boost::bad_get and produces no complete line.                *)
(***************************************************************************)
C6_RenderingNeverMasksMismatch ==
  (IsOutput /\ \E k \in 1..Len(Params) : ~Coherent(Params[k])) =>
    (last.thrown /\ ~CompleteLine)

\* A parameter whose mismatch the rendering detects: the category is a jump
\* or call and the declared type is numeric.
Detected(k) ==
  /\ inst._type \in ControlTransfer
  /\ Params[k]._type \in SignedTypes \cup UnsignedTypes
  /\ ~Coherent(Params[k])

(***************************************************************************)
(* C6 (amended): rendering fails with boost::bad_get, producing no         *)
(* complete line, exactly when the category is one of the five jump/call   *)
(* categories and some Parameter of a numeric declared type stores another *)
(* alternative than its type implies; in the eight other categories, and   *)
(* for a kString parameter, the inconsistency is not detected: the line is *)
(* complete and shows the stored alternative.                              *)
(***************************************************************************)
C6_MismatchDetectedInJumpCallOnly ==
  IsOutput =>
    IF \E k \in 1..Len(Params) : Detected(k)
    THEN /\ last.thrown
         /\ ~CompleteLine
         /\ Len(last.fields) < Len(Params)
         /\ Detected(Len(last.fields) + 1)
    ELSE ~last.thrown /\ CompleteLine

\* Rendering a kJump has failed at its second parameter, declared kByte and
\* storing an int32, after writing the first.
C6_Witness ==
  /\ IsOutput
  /\ inst._type = "kJump"
  /\ Len(Params) = 2
  /\ Params[2] = [_type |-> "kByte", _value |-> VariantInt32(-1)]
  /\ last.thrown
  /\ Len(last.fields) = 1

\* The parameters' texts, a comma before each but the first.
RECURSIVE Joined(_)
Joined(fs) ==
  IF fs = <<>> THEN <<>>
  ELSE IF Len(fs) = 1 THEN fs[1]
  ELSE Joined(SubSeq(fs, 1, Len(fs) - 1)) \o <<",">> \o fs[Len(fs)]

(***************************************************************************)
(* C7: in a rendered line the text after the name is the n parameters in   *)
(* their stored order, each preceded by one space, a comma before each but *)
(* the first, then a space, the stack change as a signed decimal in        *)
(* parentheses, and one line terminator.                                   *)
(***************************************************************************)
C7_LineShape ==
  (IsOutput /\ ~last.thrown) =>
    LET n == Len(Params)
        body == Joined(last.fields)
        from == HeaderLength + Len(body)
        rest == SubSeq(last.text, from + 1, Len(last.text))
    IN  /\ Len(last.fields) = n
        /\ \A k \in 1..n :
             /\ last.fields[k][1] = " "
             /\ last.fields[k] = ParamText(inst._type, Params[k]).text
        /\ Len(last.text) >= from + 5
        /\ SubSeq(last.text, HeaderLength + 1, from) = body
        /\ SubSeq(rest, 1, 2) = <<" ", "(">>
        /\ DecDenotes(SubSeq(rest, 3, Len(rest) - 2), inst._stackChange)
        /\ SubSeq(rest, Len(rest) - 1, Len(rest)) = <<")", "\n">>

\* A kJump with two parameters and stack change -2 has been rendered.
C7_Witness ==
  /\ IsOutput
  /\ inst._type = "kJump"
  /\ inst._address = 42
  /\ inst._name = <<"j", "m", "p">>
  /\ inst._stackChange = -2
  /\ Params = <<[_type |-> "kInt", _value |-> VariantInt32(-16)],
                [_type |-> "kString", _value |-> VariantString(<<"a", "b">>)]>>
  /\ last.text
       = <<"0", "0", "0", "0", "0", "0", "2", "a", ":", " ", "j", "m", "p",
           " ", "0", "x", "F", "F", "F", "F", "F", "F", "F", "0", ",",
           " ", "a", "b", " ", "(", "-", "2", ")", "\n">>

(***************************************************************************)
(* C8: rendering depends only on _address, _name, _type, _params and       *)
(* _stackChange: an Instruction that differs from the rendered one in      *)
(* _opcode and _codeGenData alone renders identically.                     *)
(***************************************************************************)
C8_OpcodeAndCodeGenDataNotRendered ==
  IsOutput =>
    \A o \in Opcodes, c \in CodeGenDatas :
      LET other == [inst EXCEPT !._opcode = o, !._codeGenData = c]
      IN  /\ Render(other).out = last.text
          /\ Render(other).thrown = last.thrown

\* An Instruction whose codeGenData starts with 0xC0 has been rendered.
C8_Witness ==
  /\ IsOutput
  /\ ~last.thrown
  /\ inst._opcode = 2
  /\ inst._codeGenData = <<"\\xC0", "p">>

(***************************************************************************)
(* C9: no call of getSigned, getUnsigned, getString or of the rendering,   *)
(* whether it returns or throws, changes the Instruction or its            *)
(* parameters.                                                             *)
(***************************************************************************)
C9_NothingMutates == [][inst' = inst]_vars

\* getString has returned the text of a parameter.
C9_Witness ==
  /\ last.op = "getString"
  /\ ~last.thrown
  /\ last.text = <<"a", "b">>

(***************************************************************************)
(* C10: in the jump/call categories a signed parameter is rendered as 0x   *)
(* and the uppercase hexadecimal of the full 32-bit pattern of the stored  *)
(* int32, whatever the declared width: 8 digits for a negative value, no   *)
(* minus sign, no leading zero, 0 as 0x0.                                  *)
(***************************************************************************)
C10_SignedHexIgnoresWidth ==
  (IsOutput /\ inst._type \in ControlTransfer) =>
    \A k \in 1..Len(last.fields) :
      Params[k]._type \in SignedTypes =>
        LET v == Params[k]._value.num
            h == SubSeq(last.fields[k], 4, Len(last.fields[k]))
        IN  /\ IsHexOperand(last.fields[k], v)
            /\ NoLeadingZero(h)
            /\ v < 0 => Len(h) = 8
            /\ v = 0 => h = <<"0">>

\* A kCall with kSByte -1 has been rendered, the operand as 0xFFFFFFFF.
C10_Witness ==
  /\ IsOutput
  /\ inst._type = "kCall"
  /\ Params = <<[_type |-> "kSByte", _value |-> VariantInt32(-1)]>>
  /\ last.fields
       = <<<<" ", "0", "x", "F", "F", "F", "F", "F", "F", "F", "F">>>>
====
